---- MODULE Spec2Model ----
(***************************************************************************)
(* Folder-ranking engine of rykwi/bookmark-manager.                        *)
(*                                                                         *)
(*   src/src/popup.ts      lines 136-370: the semantic service worker      *)
(*                         (embeddings, folder centroids, SUGGEST_FOLDERS  *)
(*                         and REBUILD_CENTROIDS messages)                 *)
(*   src/src/storage.ts    the IndexedDB key/value store of the centroids  *)
(*   src/src/background.ts the lexical (TF-IDF) worker, BOOKMARK_MANAGER   *)
(*                                                                         *)
(* Every await of a handler is one action: the handler runs from one       *)
(* await to the next without interleaving (one JavaScript event loop).     *)
(*                                                                         *)
(* Numbers.  Embedding components are integers that are multiples of 6,    *)
(* so that the mean over 1, 2 or 3 titles (popup.ts:291) is exact.  A      *)
(* cosine is kept in thousandths, rounded down.                            *)
(* Optional values (undefined | T) are sequences of length 0 or 1.         *)
(***************************************************************************)
EXTENDS Integers, Sequences, FiniteSets, TLC

\* ------------------------------------------------------------------ bounds
\* Number of messages the worker receives in one behaviour.
MaxReqs == 2
\* Number of changes the user makes to the bookmark tree in one behaviour.
MaxEdits == 1

\* ------------------------------------------------------- program constants
\* .slice(0, 3): at most three titles per folder.
MaxTitles == 3
\* k = 5, the default of suggestFoldersForPage.
DefaultK == 5
\* .slice(0, 3) of the lexical ranking.
TopFolders == 3

Reqs == 1..MaxReqs

None == << >>
Some(x) == << x >>
IsSome(o) == Len(o) = 1

Min(a, b) == IF a < b THEN a ELSE b

\* ------------------------------------------------------- the bookmark tree
\* chrome.bookmarks.BookmarkTreeNode: a bookmark has a url and no children
\* array; a folder has no url.  A tree maps every folder id to its optional
\* children array.
Bm(t) == [id |-> "bm", title |-> t, url |-> TRUE]
Fd(f) == [id |-> f, title |-> f, url |-> FALSE]
RootNode == [id |-> "root", title |-> "", url |-> FALSE]

FolderIds == {"root", "A", "B", "C", "D", "E", "F"}

Leaves == [f \in FolderIds |-> None]

\* Six folders with bookmarks below the root: more than DefaultK.
WideTree ==
  [Leaves EXCEPT !["root"] = Some(<<Fd("A"), Fd("B"), Fd("C"), Fd("D"), Fd("E"), Fd("F")>>),
                 !["A"] = Some(<<Bm("x")>>),
                 !["B"] = Some(<<Bm("y")>>),
                 !["C"] = Some(<<Bm("x"), Bm("y")>>),
                 !["D"] = Some(<<Bm("y")>>),
                 !["E"] = Some(<<Bm("xy")>>),
                 !["F"] = Some(<<Bm("x")>>)]

\* A folder with four bookmarks, a folder holding only a subfolder, an
\* empty folder.
DeepTree ==
  [Leaves EXCEPT !["root"] = Some(<<Fd("A"), Fd("B")>>),
                 !["A"] = Some(<<Bm("x"), Bm("x"), Bm("y"), Bm("y")>>),
                 !["B"] = Some(<<Fd("C"), Bm("y")>>),
                 !["C"] = Some(<<Fd("D")>>),
                 !["D"] = Some(<< >>)]

\* No folder holds a bookmark.
BareTree ==
  [Leaves EXCEPT !["root"] = Some(<<Fd("A")>>),
                 !["A"] = Some(<< >>)]

\* A folder whose only bookmark has an empty title.
BlankTree ==
  [Leaves EXCEPT !["root"] = Some(<<Fd("A")>>),
                 !["A"] = Some(<<Bm("")>>)]

\* A root with an empty children array.
EmptyTree == [Leaves EXCEPT !["root"] = Some(<< >>)]

\* children is optional in BookmarkTreeNode: a root without the array.
LeafTree == Leaves

InitTrees == {DeepTree, BareTree, LeafTree}
LexTrees == {DeepTree, BareTree, BlankTree, EmptyTree, LeafTree}

\* Titles the user gives to new bookmarks, and the folders they edit.
Titles == {"y"}
EditFolders == {"A"}

\* n.children
children(t, n) == IF n.url THEN None ELSE t[n.id]

\* f.children ?? []
childrenOrEmpty(t, n) == IF IsSome(children(t, n)) THEN children(t, n)[1] ELSE << >>

\* The folders of the tree, in the order of the stack walk.
RECURSIVE collectFolders(_, _)
collectFolders(t, stack) ==
  IF stack = << >> THEN << >>
  ELSE LET n == stack[Len(stack)]
           rest == SubSeq(stack, 1, Len(stack) - 1)
       IN IF Len(childrenOrEmpty(t, n)) > 0
          THEN <<n>> \o collectFolders(t, rest \o childrenOrEmpty(t, n))
          ELSE collectFolders(t, rest)

\* ------------------------------------------------------------- embeddings
\* withPrefix: MODEL includes "multilingual-e5", so the role is prefixed.
withPrefix(text, kind) == <<kind, text>>

\* The feature-extraction pipeline: a fixed function of the prefixed text.
extractor(p) ==
  CASE p = <<"passage", "x">> -> <<6, 0>>
    [] p = <<"passage", "y">> -> <<0, 6>>
    [] p = <<"passage", "xy">> -> <<6, 6>>
    [] p = <<"query", "x">> -> <<12, 6>>
    [] p = <<"query", "y">> -> <<6, 12>>
    [] OTHER -> <<6, 6>>

\* texts.map(...): one embedding per text, in the order of the texts.
RECURSIVE embed(_, _)
embed(texts, kind) ==
  IF texts = << >> THEN << >>
  ELSE <<extractor(withPrefix(Head(texts), kind))>> \o embed(Tail(texts), kind)

RECURSIVE dotFrom(_, _, _)
dotFrom(a, b, i) == IF i > Len(a) THEN 0 ELSE a[i] * b[i] + dotFrom(a, b, i + 1)

RECURSIVE sqrtBetween(_, _, _)
sqrtBetween(n, lo, hi) ==
  IF lo >= hi THEN lo
  ELSE LET mid == (lo + hi + 1) \div 2
       IN IF mid * mid <= n THEN sqrtBetween(n, mid, hi) ELSE sqrtBetween(n, lo, mid - 1)

\* Math.sqrt, rounded down.
sqrt(n) == sqrtBetween(n, 0, Min(n, 46340))

\* if (a.length !== b.length) throw new Error(...): whether the call gets
\* past the throw.
sameLengthOrTruncate(a, b) == TRUE

sameLength(a, b) == Len(a) = Len(b)

\* The / of JavaScript never throws: 0 / 0 is NaN.  (x / 0 with x # 0 is
\* an infinity; a dot product over a zero norm is 0, so it does not occur.)
NaN == -2147483647
divide(n, d) == IF d = 0 THEN NaN ELSE n \div d

\* if (normA === 0 || normB === 0) return 0
zeroNormNever(normA, normB) == FALSE

zeroNorm(normA, normB) == normA = 0 \/ normB = 0

\* cosineSimilarity of the semantic worker past the throw, in thousandths.
cosineSimilarity(a, b) ==
  LET dot == dotFrom(a, b, 1)
      normA == dotFrom(a, a, 1)
      normB == dotFrom(b, b, 1)
  IN IF zeroNorm(normA, normB) THEN 0
     ELSE divide(100000 * dot, sqrt(10000 * normA * normB))

\* ------------------------------------------------------- folder centroids
\* .filter((c) => c.url).map((c) => c.title).slice(0, 3)
selectTitlesUnfiltered(ch) ==
  LET all == [i \in 1..Len(ch) |-> ch[i].title]
  IN SubSeq(all, 1, Min(MaxTitles, Len(all)))

selectTitles(ch) ==
  LET kept == SelectSeq(ch, LAMBDA c : c.url)
      all == [i \in 1..Len(kept) |-> kept[i].title]
  IN SubSeq(all, 1, Min(MaxTitles, Len(all)))

RECURSIVE sumAt(_, _, _)
sumAt(embs, i, j) == IF j > Len(embs) THEN 0 ELSE embs[j][i] + sumAt(embs, i, j + 1)

\* The sum without the division.
meanUndivided(embs) == [i \in 1..Len(embs[1]) |-> sumAt(embs, i, 1)]

\* The mean of the embeddings: dim = embs[0].length; mean[i] += v[i] for
\* i < dim; mean[i] /= embs.length.  A v shorter than dim has v[i]
\* undefined, and the sum is NaN; of a longer v the rest is not read.
mean(embs) ==
  [i \in 1..Len(embs[1]) |->
     IF \E j \in 1..Len(embs) : Len(embs[j]) < i THEN NaN
     ELSE sumAt(embs, i, 1) \div Len(embs)]

\* results.push({folderId, name, vec, size}); gen is a history field: the
\* message whose build made the fingerprint.
FolderVec(f, titles, g) ==
  [folderId |-> f.id, name |-> f.title, vec |-> mean(embed(titles, "passage")),
   size |-> Len(titles), gen |-> g]

\* The titles buildFolderCentroids embeds for folder f: f is a node of the
\* tree the build read at its start; live is the tree as it is now.
folderChildrenLive(snapshot, live, f) == childrenOrEmpty(live, f)

folderChildren(snapshot, live, f) == childrenOrEmpty(snapshot, f)

\* if (!titles.length) continue: the loop runs on, without suspending, to
\* the next folder that has titles.
RECURSIVE skipEmpty(_, _, _)
skipEmpty(snapshot, live, fs) ==
  IF fs = << >> THEN << >>
  ELSE IF selectTitles(folderChildren(snapshot, live, fs[1])) = << >>
       THEN skipEmpty(snapshot, live, Tail(fs))
       ELSE fs

\* The whole loop of buildFolderCentroids over one tree t.
RECURSIVE buildOver(_, _, _)
buildOver(t, fs, g) ==
  IF fs = << >> THEN << >>
  ELSE LET titles == selectTitles(childrenOrEmpty(t, fs[1]))
       IN IF titles = << >> THEN buildOver(t, Tail(fs), g)
          ELSE <<FolderVec(fs[1], titles, g)>> \o buildOver(t, Tail(fs), g)

buildAll(t, g) == buildOver(t, collectFolders(t, <<RootNode>>), g)

\* ------------------------------------------------------------- the store
\* What the loop of buildFolderCentroids does to the store when it has
\* pushed a centroid: nothing, results is a local array.
storeInLoopEager(old, partial) == Some(partial)

storeInLoop(old, partial) == old

\* set(key, results, store): the value under the key is replaced.
saveCentroidsMerged(old, results) == IF IsSome(old) THEN Some(old[1] \o results) ELSE Some(results)

saveCentroids(old, results) == Some(results)

\* cached ?? buildFolderCentroids(): only undefined leads to a build.
needsBuildAlways(c) == TRUE

needsBuildWhenEmpty(c) == c = None \/ c = Some(<< >>)

needsBuild(c) == c = None

\* ---------------------------------------------------------------- ranking
\* (a, b) => b.score - a.score is negative: a goes before b.
scoreBeforeAscending(a, b) == a.score < b.score

scoreBefore(a, b) == a.score > b.score

\* Array.prototype.sort with that comparator; the sort is stable: e goes
\* behind every element it does not go before.
RECURSIVE insertScored(_, _)
insertScored(sorted, e) ==
  IF sorted = << >> THEN <<e>>
  ELSE IF scoreBefore(e, sorted[1]) THEN <<e>> \o sorted
       ELSE <<sorted[1]>> \o insertScored(Tail(sorted), e)

RECURSIVE sortByScore(_)
sortByScore(xs) ==
  IF xs = << >> THEN << >>
  ELSE insertScored(sortByScore(SubSeq(xs, 1, Len(xs) - 1)), xs[Len(xs)])

\* .slice(0, k)
slice(xs, k) == SubSeq(xs, 1, Min(k, Len(xs)))

\* { ...c, score: cosineSimilarity(q, c.vec) }
withScore(q, c) ==
  [folderId |-> c.folderId, name |-> c.name, vec |-> c.vec, size |-> c.size,
   gen |-> c.gen, score |-> cosineSimilarity(q, c.vec)]

\* Whether centroids.map(...) of suggestFoldersForPage gets through: the
\* first cosineSimilarity that throws ends the map and the function.
scorable(q, centroids) == \A i \in 1..Len(centroids) : sameLength(q, centroids[i].vec)

\* The scoring of suggestFoldersForPage, after the two awaits, when no
\* cosineSimilarity throws.
suggestFoldersForPage(q, centroids, k) ==
  slice(sortByScore([i \in 1..Len(centroids) |-> withScore(q, centroids[i])]), k)

\* ------------------------------------------------------------------ state
VARIABLES
  tree,        \* the browser's bookmark tree
  edits,       \* changes made to it so far
  tab,         \* the active tab's page text; None: no active tab
  store,       \* IndexedDB, key centroids:MODEL; None: no value
  lstore,      \* chrome.storage.local, keys idf and folders; None: never set
  pc,          \* per message: the await its handler is suspended on
  action,      \* per message: msg.action
  snap,        \* per message: tree of buildFolderCentroids; None: not read
  todo,        \* per message: the folders the loop has still to visit
  results,     \* per message: results of buildFolderCentroids
  cached,      \* per message: cached of loadCentroids; None: not read yet
  centroids,   \* per message: centroids of suggestFoldersForPage
  resp,        \* per message: what sendResponse was called with
  storeGen,    \* history: the message whose build wrote store; 0: none
  builds,      \* history, per message: calls of buildFolderCentroids
  prev,        \* history, per message: see LoadCentroids
  lastEnsure,  \* history: what the last loadCentroids to return returned
  call         \* a call of one function on its own: arguments and result

vars == <<tree, edits, tab, store, lstore, pc, action, snap, todo, results, cached,
          centroids, resp, storeGen, builds, prev, lastEnsure, call>>

envVars == <<tree, edits, tab>>
NoCall == << >>
buildVars == <<snap, todo, results>>
ensureVars == <<cached, centroids, prev, lastEnsure>>

NoResp == [sent |-> 0, kind |-> "none", result |-> << >>]
ErrorResp(msg) == [sent |-> 1, kind |-> msg, result |-> << >>]
OkResp(result) == [sent |-> 1, kind |-> "ok", result |-> result]
FoldersResp(folders) == [sent |-> 1, kind |-> "folders", result |-> folders]

PageTexts == {"x"}
LexPageTexts == {"x", "xy"}

\* The handlers' variables before any handler has run.
InitLocals ==
  /\ edits = 0
  /\ lstore = None
  /\ snap = [r \in Reqs |-> None]
  /\ todo = [r \in Reqs |-> << >>]
  /\ results = [r \in Reqs |-> << >>]
  /\ cached = [r \in Reqs |-> None]
  /\ centroids = [r \in Reqs |-> None]
  /\ resp = [r \in Reqs |-> NoResp]
  /\ storeGen = 0
  /\ builds = [r \in Reqs |-> 0]
  /\ prev = [r \in Reqs |-> None]
  /\ lastEnsure = None

\* The worker has just started: no message yet.
InitWorker ==
  /\ pc = [r \in Reqs |-> "idle"]
  /\ action = [r \in Reqs |-> "none"]
  /\ call = NoCall
  /\ InitLocals

Init ==
  /\ tree \in InitTrees
  /\ tab \in {None} \cup {Some(p) : p \in PageTexts}
  /\ store = None
  /\ InitWorker

\* ------------------------------------------------------ the user's edits
\* The folders that are in the tree.
inTree(t, f) == \E g \in FolderIds : IsSome(t[g]) /\ \E i \in 1..Len(t[g][1]) : t[g][1][i] = Fd(f)

\* chrome.bookmarks.create in folder f (the popup's click handler does it).
AddBookmark(f, t) ==
  /\ edits < MaxEdits
  /\ inTree(tree, f) /\ IsSome(tree[f])
  /\ tree' = [tree EXCEPT ![f] = Some(Append(tree[f][1], Bm(t)))]
  /\ edits' = edits + 1
  /\ UNCHANGED <<call, tab, store, lstore, pc, action, buildVars, ensureVars, resp,
                 storeGen, builds>>

\* The user removes the first bookmark of folder f.
RemoveBookmark(f) ==
  /\ edits < MaxEdits
  /\ inTree(tree, f) /\ IsSome(tree[f])
  /\ Len(tree[f][1]) > 0 /\ tree[f][1][1].url
  /\ tree' = [tree EXCEPT ![f] = Some(Tail(tree[f][1]))]
  /\ edits' = edits + 1
  /\ UNCHANGED <<call, tab, store, lstore, pc, action, buildVars, ensureVars, resp,
                 storeGen, builds>>

\* --------------------------------------------------- the semantic worker
\* The listener is called with a message; messages are numbered in the
\* order they arrive.
Receive(r, a) ==
  /\ pc[r] = "idle"
  /\ \A o \in Reqs : o < r => pc[o] # "idle"
  /\ action' = [action EXCEPT ![r] = a]
  /\ IF a = "SUGGEST_FOLDERS"
     THEN /\ pc' = [pc EXCEPT ![r] = "tabsQuery"]
          /\ UNCHANGED builds
     ELSE /\ pc' = [pc EXCEPT ![r] = "getTree"]
          /\ builds' = [builds EXCEPT ![r] = builds[r] + 1]
  /\ UNCHANGED <<envVars, call, store, lstore, buildVars, ensureVars, resp, storeGen>>

\* await chrome.tabs.query resolves.
TabsQuery(r) ==
  /\ pc[r] = "tabsQuery"
  /\ IF tab = None
     THEN /\ resp' = [resp EXCEPT ![r] = ErrorResp("no active tab")]
          /\ pc' = [pc EXCEPT ![r] = "returned"]
     ELSE /\ pc' = [pc EXCEPT ![r] = "executeScript"]
          /\ UNCHANGED resp
  /\ UNCHANGED <<envVars, call, store, lstore, action, buildVars, ensureVars, storeGen,
                 builds>>

\* await chrome.scripting.executeScript resolves; embed([pageText]) starts.
ExecuteScript(r) ==
  /\ pc[r] = "executeScript"
  /\ pc' = [pc EXCEPT ![r] = "embedQuery"]
  /\ UNCHANGED <<envVars, call, store, lstore, action, buildVars, ensureVars, resp,
                 storeGen, builds>>

\* const [q] = await embed([pageText], "query")
queryVector == embed(<<tab[1]>>, "query")[1]

\* await embed resolves; loadCentroidsFromStorage starts.
EmbedQuery(r) ==
  /\ pc[r] = "embedQuery"
  /\ pc' = [pc EXCEPT ![r] = "loadCentroids"]
  /\ UNCHANGED <<envVars, call, store, lstore, action, buildVars, ensureVars, resp,
                 storeGen, builds>>

\* The synchronous end of the SUGGEST_FOLDERS handler: score, sort, respond.
\* When cosineSimilarity throws, suggestFoldersForPage rejects and the
\* listener, which has no catch, sends nothing.
Respond(r, cs) ==
  IF scorable(queryVector, cs)
  THEN OkResp(suggestFoldersForPage(queryVector, cs, DefaultK))
  ELSE resp[r]

ended(cs) == IF scorable(queryVector, cs) THEN "returned" ELSE "rejected"

\* await loadCentroidsFromStorage(MODEL) resolves: the cached set is
\* returned and scored, or buildFolderCentroids is called.
\* prev: what the last loadCentroids before this one returned, if nothing
\* was written to the store since it returned.
LoadCentroids(r) ==
  /\ pc[r] = "loadCentroids"
  /\ cached' = [cached EXCEPT ![r] = Some(store)]
  /\ prev' = [prev EXCEPT ![r] = lastEnsure]
  /\ IF needsBuild(store)
     THEN /\ builds' = [builds EXCEPT ![r] = builds[r] + 1]
          /\ pc' = [pc EXCEPT ![r] = "getTree"]
          /\ UNCHANGED <<centroids, resp, lastEnsure>>
     ELSE /\ centroids' = [centroids EXCEPT ![r] = store]
          /\ lastEnsure' = store
          /\ resp' = [resp EXCEPT ![r] = Respond(r, store[1])]
          /\ pc' = [pc EXCEPT ![r] = ended(store[1])]
          /\ UNCHANGED builds
  /\ UNCHANGED <<envVars, call, store, lstore, action, buildVars, storeGen>>

\* After the loop has moved on: suspended on embed, or on saveCentroids.
afterLoop(fs) == IF fs = << >> THEN "saveCentroids" ELSE "embedFolder"

\* await chrome.bookmarks.getTree() resolves: the folders are collected and
\* the loop runs to its first await.
GetTree(r) ==
  /\ pc[r] = "getTree"
  /\ snap' = [snap EXCEPT ![r] = Some(tree)]
  /\ results' = [results EXCEPT ![r] = << >>]
  /\ LET fs == skipEmpty(tree, tree, collectFolders(tree, <<RootNode>>))
     IN /\ todo' = [todo EXCEPT ![r] = fs]
        /\ pc' = [pc EXCEPT ![r] = afterLoop(fs)]
  /\ UNCHANGED <<envVars, call, store, lstore, action, ensureVars, resp, storeGen,
                 builds>>

\* await embed(titles, "passage") resolves for the folder at the head of
\* todo: its centroid is pushed and the loop runs to its next await.
EmbedFolder(r) ==
  /\ pc[r] = "embedFolder"
  /\ LET f == todo[r][1]
         titles == selectTitles(folderChildren(snap[r][1], tree, f))
         fs == skipEmpty(snap[r][1], tree, Tail(todo[r]))
     IN /\ results' = [results EXCEPT ![r] = Append(results[r], FolderVec(f, titles, r))]
        /\ store' = storeInLoop(store, Append(results[r], FolderVec(f, titles, r)))
        /\ todo' = [todo EXCEPT ![r] = fs]
        /\ pc' = [pc EXCEPT ![r] = afterLoop(fs)]
  /\ UNCHANGED <<envVars, call, lstore, action, snap, ensureVars, resp, storeGen, builds>>

\* await saveCentroids(MODEL, results) resolves: buildFolderCentroids
\* returns results; REBUILD_CENTROIDS answers ok, SUGGEST_FOLDERS scores.
SaveCentroids(r) ==
  /\ pc[r] = "saveCentroids"
  /\ store' = saveCentroids(store, results[r])
  /\ storeGen' = r
  /\ results' = [results EXCEPT ![r] = << >>]
  /\ pc' = [pc EXCEPT ![r] = IF action[r] = "SUGGEST_FOLDERS" THEN ended(results[r])
                             ELSE "returned"]
  /\ IF action[r] = "SUGGEST_FOLDERS"
     THEN /\ centroids' = [centroids EXCEPT ![r] = Some(results[r])]
          /\ lastEnsure' = Some(results[r])
          /\ resp' = [resp EXCEPT ![r] = Respond(r, results[r])]
     ELSE /\ resp' = [resp EXCEPT ![r] = OkResp(<< >>)]
          /\ lastEnsure' = None
          /\ UNCHANGED centroids
  /\ UNCHANGED <<envVars, call, lstore, action, snap, todo, cached, prev, builds>>

\* The awaits of the semantic handler; each can reject.
SemanticAwaits == {"tabsQuery", "executeScript", "embedQuery", "loadCentroids",
                   "getTree", "embedFolder", "saveCentroids"}

\* An awaited promise rejects: the async function of the listener has no
\* catch, so its promise rejects and sendResponse is not called.  The
\* locals of an abandoned build are gone with it.
Reject(r) ==
  /\ pc[r] \in SemanticAwaits
  /\ pc' = [pc EXCEPT ![r] = "rejected"]
  /\ todo' = [todo EXCEPT ![r] = << >>]
  /\ results' = [results EXCEPT ![r] = << >>]
  /\ UNCHANGED <<envVars, call, store, lstore, action, snap, ensureVars, resp,
                 storeGen, builds>>

Edit ==
  \E f \in EditFolders :
    \/ \E t \in Titles : AddBookmark(f, t)
    \/ RemoveBookmark(f)

Next ==
  \/ Edit
  \/ \E r \in Reqs :
       \/ \E a \in {"SUGGEST_FOLDERS", "REBUILD_CENTROIDS"} : Receive(r, a)
       \/ TabsQuery(r)
       \/ ExecuteScript(r)
       \/ EmbedQuery(r)
       \/ LoadCentroids(r)
       \/ GetTree(r)
       \/ EmbedFolder(r)
       \/ SaveCentroids(r)
       \/ Reject(r)

Spec == Init /\ [][Next]_vars

\* ---------------------------------------------------- the lexical worker
\* tokenize of wakachigaki: a title is segmented into its terms.
segment(title) ==
  CASE title = "" -> << >>
    [] title = "xy" -> <<"x", "y">>
    [] OTHER -> <<title>>

\* node.children.map(c => c.title).join("") is kept as the sequence of the
\* titles; tokenizeText segments it title by title.
RECURSIVE tokenizeText(_)
tokenizeText(titles) ==
  IF titles = << >> THEN << >> ELSE segment(titles[1]) \o tokenizeText(Tail(titles))

\* A Vector maps terms to weights; the weights of one vector have a common
\* denominator: the weight of term t is num[t] / den.
\* tf is the object literal {}: for a token that names a property of
\* Object.prototype, tf[t] is the inherited function before the first
\* assignment, (tf[t] || 0) + 1 is a string, and tf[t] /= len makes it NaN.
ObjectPrototypeNames == {"constructor", "toString", "valueOf", "hasOwnProperty"}

occurrences(tokens, t) ==
  IF t \in ObjectPrototypeNames THEN NaN
  ELSE Cardinality({i \in 1..Len(tokens) : tokens[i] = t})

\* tf[t] = (tf[t] || 0) + 1; tf[t] /= len
termFrequency(tokens) ==
  [den |-> Len(tokens),
   num |-> [t \in {tokens[i] : i \in 1..Len(tokens)} |-> occurrences(tokens, t)]]

keys(v) == DOMAIN v.num

\* Math.log(a / b), in hundredths.
ln100(a, b) ==
  CASE a = b -> 0
    [] a = 3 /\ b = 2 -> 41
    [] a = 4 /\ b = 2 -> 69
    [] a = 4 /\ b = 3 -> 29
    [] a = 5 /\ b = 2 -> 92
    [] a = 5 /\ b = 3 -> 51
    [] a = 5 /\ b = 4 -> 22
    [] a = 6 /\ b = 2 -> 110
    [] a = 6 /\ b = 3 -> 69
    [] a = 6 /\ b = 4 -> 41
    [] a = 6 /\ b = 5 -> 18
    [] a = 7 /\ b = 2 -> 125
    [] a = 7 /\ b = 3 -> 85
    [] a = 7 /\ b = 4 -> 56
    [] a = 7 /\ b = 5 -> 34
    [] a = 7 /\ b = 6 -> 15
    [] a = 8 /\ b = 2 -> 139
    [] a = 8 /\ b = 3 -> 98
    [] a = 8 /\ b = 4 -> 69
    [] a = 8 /\ b = 5 -> 47
    [] a = 8 /\ b = 6 -> 29
    [] a = 8 /\ b = 7 -> 13

\* idf[term] = Math.log((N + 1) / (1 + df[term])) + 1, in hundredths.
computeIDF(allTFs) ==
  LET N == Len(allTFs)
      terms == UNION {keys(allTFs[i]) : i \in 1..N}
      df(t) == Cardinality({i \in 1..N : t \in keys(allTFs[i])})
  IN [t \in terms |-> ln100(N + 1, 1 + df(t)) + 100]

\* tfidf[term] = (tf[term] || 0) * idf[term], for every term of idf.
computeTFIDF(tf, idf) ==
  [den |-> tf.den * 100,
   num |-> [t \in DOMAIN idf |-> (IF t \in keys(tf) THEN tf.num[t] ELSE 0) * idf[t]]]

RECURSIVE sumOver(_, _)
sumOver(f, S) ==
  IF S = {} THEN 0
  ELSE LET t == CHOOSE x \in S : TRUE IN f[t] + sumOver(f, S \ {t})

\* cosineSimilarity of the lexical worker, in thousandths.  The common
\* denominators of the two vectors cancel in dot / (|a| |b|).
cosineSimilaritySparse(vecA, vecB) ==
  LET terms == keys(vecA) \cup keys(vecB)
      a == [t \in terms |-> IF t \in keys(vecA) THEN vecA.num[t] ELSE 0]
      b == [t \in terms |-> IF t \in keys(vecB) THEN vecB.num[t] ELSE 0]
      dot == sumOver([t \in terms |-> a[t] * b[t]], terms)
      normA == sumOver([t \in terms |-> a[t] * a[t]], terms)
      normB == sumOver([t \in terms |-> b[t] * b[t]], terms)
  IN IF normA # 0 /\ normB # 0 THEN divide(1000 * dot, sqrt(normA) * sqrt(normB)) ELSE 0

\* node.children.map(c => c.title)
childTitles(ch) == [i \in 1..Len(ch) |-> ch[i].title]

\* processBookmarkFolders: the node, if it has a children array, then the
\* folders below each child that has one.  allTFs gets the same folders'
\* tf in the same order.
RECURSIVE processBookmarkFolders(_, _)
RECURSIVE processChildren(_, _)
processChildren(t, ch) ==
  IF ch = << >> THEN << >>
  ELSE (IF IsSome(children(t, ch[1])) THEN processBookmarkFolders(t, ch[1]) ELSE << >>)
       \o processChildren(t, Tail(ch))

processBookmarkFolders(t, node) ==
  IF IsSome(children(t, node))
  THEN <<[id |-> node.id, title |-> node.title,
          tf |-> termFrequency(tokenizeText(childTitles(children(t, node)[1])))]>>
       \o processChildren(t, children(t, node)[1])
  ELSE << >>

\* The corpus main computes from the tree: idf over the folders' tf, and the
\* folders with tfidf filled in.
corpusIdfWithPage(t) ==
  LET fs == processBookmarkFolders(t, RootNode)
  IN computeIDF(Append([i \in 1..Len(fs) |-> fs[i].tf],
                       termFrequency(tokenizeText(<<tab[1]>>))))

corpusIdf(t) ==
  LET fs == processBookmarkFolders(t, RootNode)
  IN computeIDF([i \in 1..Len(fs) |-> fs[i].tf])

corpusFolders(t) ==
  LET fs == processBookmarkFolders(t, RootNode)
  IN [i \in 1..Len(fs) |->
        [id |-> fs[i].id, title |-> fs[i].title, tf |-> fs[i].tf,
         tfidf |-> computeTFIDF(fs[i].tf, corpusIdf(t))]]

\* pageTF and pageTFIDF
pageTF == termFrequency(tokenizeText(<<tab[1]>>))

\* folderScores, sorted by score and cut to the first three.
topFolders(folders, idf) ==
  LET pageTFIDF == computeTFIDF(pageTF, idf)
      folderScores == [i \in 1..Len(folders) |->
                         [id |-> folders[i].id, title |-> folders[i].title,
                          score |-> cosineSimilaritySparse(pageTFIDF, folders[i].tfidf)]]
  IN slice(sortByScore(folderScores), TopFolders)

\* if (topFolders.length > 0) sendResponse({folders}) else sendResponse({error})
lexicalResponse(top) ==
  IF Len(top) > 0 THEN FoldersResp(top) ELSE ErrorResp("no folder found")

LexReceive(r) ==
  /\ pc[r] = "idle"
  /\ \A o \in Reqs : o < r => pc[o] # "idle"
  /\ action' = [action EXCEPT ![r] = "BOOKMARK_MANAGER"]
  /\ pc' = [pc EXCEPT ![r] = "lexTabsQuery"]
  /\ UNCHANGED <<envVars, call, store, lstore, buildVars, ensureVars, resp, storeGen, builds>>

\* await chrome.tabs.query resolves.
LexTabsQuery(r) ==
  /\ pc[r] = "lexTabsQuery"
  /\ IF tab = None
     THEN /\ resp' = [resp EXCEPT ![r] = ErrorResp("no active tab")]
          /\ pc' = [pc EXCEPT ![r] = "returned"]
     ELSE /\ pc' = [pc EXCEPT ![r] = "lexExecuteScript"]
          /\ UNCHANGED resp
  /\ UNCHANGED <<envVars, call, store, lstore, action, buildVars, ensureVars, storeGen, builds>>

\* await chrome.scripting.executeScript resolves.
LexExecuteScript(r) ==
  /\ pc[r] = "lexExecuteScript"
  /\ pc' = [pc EXCEPT ![r] = "lexStorageGet"]
  /\ UNCHANGED <<envVars, call, store, lstore, action, buildVars, ensureVars, resp,
                 storeGen, builds>>

\* await chrome.storage.local.get(["idf", "folders"]) resolves; the
\* condition of the if that follows is the literal true.
LexStorageGet(r) ==
  /\ pc[r] = "lexStorageGet"
  /\ cached' = [cached EXCEPT ![r] = Some(lstore)]
  /\ pc' = [pc EXCEPT ![r] = "lexGetTree"]
  /\ UNCHANGED <<envVars, call, store, lstore, action, buildVars, centroids, prev,
                 lastEnsure, resp, storeGen, builds>>

\* await chrome.bookmarks.getTree() resolves: folders and idf are computed
\* from the tree and chrome.storage.local.set starts.
LexGetTree(r) ==
  /\ pc[r] = "lexGetTree"
  /\ snap' = [snap EXCEPT ![r] = Some(tree)]
  /\ builds' = [builds EXCEPT ![r] = builds[r] + 1]
  /\ pc' = [pc EXCEPT ![r] = "lexStorageSet"]
  /\ UNCHANGED <<envVars, call, store, lstore, action, todo, results, ensureVars, resp,
                 storeGen>>

\* await chrome.storage.local.set({idf, folders}) resolves: the page is
\* scored against the folders and the answer is sent.
LexStorageSet(r) ==
  /\ pc[r] = "lexStorageSet"
  /\ lstore' = Some([idf |-> corpusIdf(snap[r][1]), folders |-> corpusFolders(snap[r][1])])
  /\ resp' = [resp EXCEPT ![r] =
                lexicalResponse(topFolders(corpusFolders(snap[r][1]), corpusIdf(snap[r][1])))]
  /\ pc' = [pc EXCEPT ![r] = "returned"]
  /\ UNCHANGED <<envVars, call, store, action, buildVars, ensureVars, storeGen, builds>>

LexicalAwaits == {"lexTabsQuery", "lexExecuteScript", "lexStorageGet", "lexGetTree",
                  "lexStorageSet"}

\* An awaited promise rejects: main has no catch and the listener does not
\* await it, so sendResponse is not called.
LexReject(r) ==
  /\ pc[r] \in LexicalAwaits
  /\ pc' = [pc EXCEPT ![r] = "rejected"]
  /\ UNCHANGED <<envVars, call, store, lstore, action, buildVars, ensureVars, resp,
                 storeGen, builds>>

InitLex ==
  /\ tree \in LexTrees
  /\ tab \in {None} \cup {Some(p) : p \in LexPageTexts}
  /\ store = None
  /\ InitWorker

NextLex ==
  \/ Edit
  \/ \E r \in Reqs :
       \/ LexReceive(r)
       \/ LexTabsQuery(r)
       \/ LexExecuteScript(r)
       \/ LexStorageGet(r)
       \/ LexGetTree(r)
       \/ LexStorageSet(r)
       \/ LexReject(r)

SpecLex == InitLex /\ [][NextLex]_vars

\* --------------------------------------------------------- both workers
\* The two workers side by side, each with its own store, on one bookmark
\* tree.  Every message has reached the read of its worker's store: the odd
\* ones are SUGGEST_FOLDERS, the even ones BOOKMARK_MANAGER.
InitBoth ==
  /\ tree = DeepTree
  /\ tab \in {Some(p) : p \in LexPageTexts}
  /\ store = None
  /\ pc = [r \in Reqs |-> IF r % 2 = 1 THEN "loadCentroids" ELSE "lexStorageGet"]
  /\ action = [r \in Reqs |-> IF r % 2 = 1 THEN "SUGGEST_FOLDERS" ELSE "BOOKMARK_MANAGER"]
  /\ call = NoCall
  /\ InitLocals

NextBoth ==
  \/ Edit
  \/ \E r \in Reqs :
       \/ LoadCentroids(r)
       \/ GetTree(r)
       \/ EmbedFolder(r)
       \/ SaveCentroids(r)
       \/ Reject(r)
       \/ LexStorageGet(r)
       \/ LexGetTree(r)
       \/ LexStorageSet(r)
       \/ LexReject(r)

SpecBoth == InitBoth /\ [][NextBoth]_vars

\* ------------------------------------------------------------ ranking only
\* The two rankings applied to bounded inputs: every message is about to
\* rank.  The odd messages are SUGGEST_FOLDERS and find in the store a set
\* an earlier run of the worker left there; the even ones are
\* BOOKMARK_MANAGER and read the tree.
MaxStored == 6

RankVecs == {<<6, 0>>, <<0, 6>>}
RankPageTexts == {"x", "xy"}
RankTrees == {WideTree, DeepTree, EmptyTree}
FolderNames == <<"A", "B", "C", "D", "E", "F", "G", "H">>

storedSet(vs) ==
  [i \in 1..Len(vs) |->
     [folderId |-> FolderNames[i], name |-> FolderNames[i], vec |-> vs[i], size |-> 1, gen |-> 0]]

RankStores == {Some(storedSet(vs)) : vs \in UNION {[1..n -> RankVecs] : n \in 0..MaxStored}}

\* What embed returned for two texts before it called the extractor text by
\* text: one vector of the model's dimension times the number of texts.
\* A set built then can still be in the store.
MaxOld == 2
OldVecs == {<<6, 0, 0, 6>>}
OldStores == {Some(storedSet(vs)) : vs \in [1..MaxOld -> RankVecs \cup OldVecs]}

InitRank ==
  /\ tab \in {Some(p) : p \in RankPageTexts}
  /\ store \in RankStores \cup OldStores
  /\ tree \in RankTrees
  /\ pc = [r \in Reqs |-> IF r % 2 = 1 THEN "loadCentroids" ELSE "lexGetTree"]
  /\ action = [r \in Reqs |-> IF r % 2 = 1 THEN "SUGGEST_FOLDERS" ELSE "BOOKMARK_MANAGER"]
  /\ call = NoCall
  /\ InitLocals

NextRank ==
  \E r \in Reqs :
       \/ LoadCentroids(r)
       \/ LexGetTree(r)
       \/ LexStorageSet(r)

SpecRank == InitRank /\ [][NextRank]_vars

\* ------------------------------------------------- the functions alone
\* No message and no bookmark: one call of a function is all that happens.
workerVars == <<tree, edits, tab, store, lstore, pc, action, snap, todo, results,
                cached, centroids, resp, storeGen, builds, prev, lastEnsure>>

InitNoWorker ==
  /\ tree = LeafTree
  /\ tab = None
  /\ store = None
  /\ pc = [r \in Reqs |-> "idle"]
  /\ action = [r \in Reqs |-> "none"]
  /\ InitLocals

\* How a call stands: not made yet, returned with a value, or left by a throw.
Pending == [state |-> "pending", value |-> 0]
Returned(v) == [state |-> "returned", value |-> v]
Threw == [state |-> "threw", value |-> 0]

\* The two cosineSimilarity functions, each called once: a and b go to the
\* one of the semantic worker, vecA and vecB to the one of the lexical.
MaxDim == 2
Components == {0, 6}
DenseVecs == UNION {[1..n -> Components] : n \in 0..MaxDim}
Terms == {"x", "y"}
SparseVecs == {[den |-> 1, num |-> f] : f \in UNION {[S -> 0..1] : S \in SUBSET Terms}}

InitCosine ==
  /\ call \in [a : DenseVecs, b : DenseVecs, vecA : SparseVecs, vecB : SparseVecs,
                dense : {Pending}, sparse : {Pending}]
  /\ InitNoWorker

CallCosineSimilarity ==
  /\ call.dense = Pending
  /\ call' = [call EXCEPT !.dense = IF sameLength(call.a, call.b)
                                      THEN Returned(cosineSimilarity(call.a, call.b))
                                      ELSE Threw]
  /\ UNCHANGED workerVars

CallCosineSimilaritySparse ==
  /\ call.sparse = Pending
  /\ call' = [call EXCEPT !.sparse = Returned(cosineSimilaritySparse(call.vecA, call.vecB))]
  /\ UNCHANGED workerVars

NextCosine == CallCosineSimilarity \/ CallCosineSimilaritySparse

SpecCosine == InitCosine /\ [][NextCosine]_vars

\* embed, then the mean of buildFolderCentroids, called once.  The
\* extractor calls of one embed are started together and resolve in any
\* order.  The provider is the model's extractor, or one whose output
\* length depends on the text.
MaxTexts == 3
Texts == {"x", "y", "xy"}
TextSeqs == UNION {[1..n -> Texts] : n \in 1..MaxTexts}

extractorRagged(p) == IF p[2] = "xy" THEN <<6, 6, 6>> ELSE extractor(p)
provide(provider, p) == IF provider = "ragged" THEN extractorRagged(p) ELSE extractor(p)

InitEmbed ==
  /\ call \in [texts : TextSeqs, kind : {"passage", "query"}, provider : {"model", "ragged"},
                phase : {"idle"}, resolved : {<< >>}, embs : {<< >>}, centroid : {None}]
  /\ InitNoWorker

\* texts.map(async (text) => ...): every extractor call is started.
EmbedStart ==
  /\ call.phase = "idle"
  /\ call' = [call EXCEPT !.phase = "awaiting"]
  /\ UNCHANGED workerVars

\* The extractor call for texts[i] resolves.
ExtractorResolve(i) ==
  /\ call.phase = "awaiting"
  /\ i \in 1..Len(call.texts)
  /\ \A k \in 1..Len(call.resolved) : call.resolved[k].i # i
  /\ call' = [call EXCEPT !.resolved =
                 Append(@, [i |-> i,
                            v |-> provide(call.provider, withPrefix(call.texts[i], call.kind))])]
  /\ UNCHANGED workerVars

\* Promise.all: the values in the order of the promises it was given.
promiseAllAsResolved(resolved) == [k \in 1..Len(resolved) |-> resolved[k].v]

promiseAll(resolved) ==
  [i \in 1..Len(resolved) |->
     resolved[CHOOSE k \in 1..Len(resolved) : resolved[k].i = i].v]

\* await Promise.all(outputPromise) resolves; embed returns the arrays.
EmbedReturn ==
  /\ call.phase = "awaiting"
  /\ Len(call.resolved) = Len(call.texts)
  /\ call' = [call EXCEPT !.phase = "returned", !.embs = promiseAll(call.resolved)]
  /\ UNCHANGED workerVars

\* The rest of the loop body of buildFolderCentroids: mean and push.
PushCentroid ==
  /\ call.phase = "returned"
  /\ call.kind = "passage" /\ Len(call.texts) <= MaxTitles
  /\ call' = [call EXCEPT !.phase = "pushed",
                          !.centroid = Some([vec |-> mean(call.embs), size |-> Len(call.texts)])]
  /\ UNCHANGED workerVars

NextEmbed ==
  \/ EmbedStart
  \/ \E i \in 1..MaxTexts : ExtractorResolve(i)
  \/ EmbedReturn
  \/ PushCentroid

SpecEmbed == InitEmbed /\ [][NextEmbed]_vars

\* termFrequency called once.  divisions counts the tf[t] /= len the call
\* made: one for every key of tf.
MaxTokens == 4
Tokens == {"x", "y", "constructor"}
TokenSeqs == UNION {[1..n -> Tokens] : n \in 0..MaxTokens}

InitTF ==
  /\ call \in [tokens : TokenSeqs, state : {"pending"}, tf : {termFrequency(<< >>)},
                divisions : {0}]
  /\ InitNoWorker

CallTermFrequency ==
  /\ call.state = "pending"
  /\ call' = [call EXCEPT !.state = "returned",
                          !.tf = termFrequency(call.tokens),
                          !.divisions = Cardinality(keys(termFrequency(call.tokens)))]
  /\ UNCHANGED workerVars

NextTF == CallTermFrequency

SpecTF == InitTF /\ [][NextTF]_vars

\* getExtractor under concurrent embed calls.  Every caller is one embed
\* call, of a ranking ("query") or of a build ("passage"); pipelines holds
\* one entry for every pipeline() call made, extractorPromise the module
\* variable: the number of the pipeline() call whose promise it holds.
MaxCallers == 3
Callers == 1..MaxCallers

\* if (!extractorPromise)
needsPipelineAlways(p) == TRUE

needsPipeline(p) == p = None

InitPipeline ==
  /\ call \in [extractorPromise : {None}, pipelines : {<< >>},
                callers : [Callers -> [pc : {"idle"}, kind : {"query", "passage"},
                                       extractor : {None}]]]
  /\ InitNoWorker

\* embed is called: getExtractor runs to its return without suspending,
\* and embed is suspended on the promise it returned.
GetExtractor(c) ==
  /\ call.callers[c].pc = "idle"
  /\ LET made == needsPipeline(call.extractorPromise)
         promise == IF made THEN Some(Len(call.pipelines) + 1) ELSE call.extractorPromise
     IN call' = [call EXCEPT !.pipelines = IF made THEN Append(@, "pending") ELSE @,
                             !.extractorPromise = promise,
                             !.callers[c].pc = "awaitExtractor",
                             !.callers[c].extractor = promise]
  /\ UNCHANGED workerVars

\* The promise of pipeline() call i settles: the model is loaded, or not.
PipelineSettle(i, outcome) ==
  /\ i \in 1..Len(call.pipelines)
  /\ call.pipelines[i] = "pending"
  /\ call' = [call EXCEPT !.pipelines[i] = outcome]
  /\ UNCHANGED workerVars

\* const extractor = await getExtractor() resolves or throws.
AwaitExtractor(c) ==
  /\ call.callers[c].pc = "awaitExtractor"
  /\ call.pipelines[call.callers[c].extractor[1]] # "pending"
  /\ call' = [call EXCEPT !.callers[c].pc =
                 IF call.pipelines[call.callers[c].extractor[1]] = "fulfilled"
                 THEN "extracting" ELSE "rejected"]
  /\ UNCHANGED workerVars

\* await Promise.all(outputPromise) resolves; embed returns.
EmbedDone(c) ==
  /\ call.callers[c].pc = "extracting"
  /\ call' = [call EXCEPT !.callers[c].pc = "returned"]
  /\ UNCHANGED workerVars

NextPipeline ==
  \/ \E c \in Callers : GetExtractor(c) \/ AwaitExtractor(c) \/ EmbedDone(c)
  \/ \E i \in Callers : \E outcome \in {"fulfilled", "rejected"} : PipelineSettle(i, outcome)

SpecPipeline == InitPipeline /\ [][NextPipeline]_vars

\* The popup: its two buttons and the click handler that is running.  A
\* disabled button dispatches no click.  paths is a history field: how
\* every handler so far has ended.
MaxClicks == 2

InitPopup ==
  /\ call = [pc |-> "idle", rebuildDisabled |-> FALSE, suggestDisabled |-> FALSE,
             status |-> "", folderList |-> 0, paths |-> << >>]
  /\ InitNoWorker

\* The finally block, and the no-tab branch: removeAttribute("disabled")
\* on both buttons.
reenable(c) == [c EXCEPT !.rebuildDisabled = FALSE, !.suggestDisabled = FALSE]

\* A handler has ended on the given path.
handlerEnds(c, path) == [c EXCEPT !.pc = "idle", !.paths = Append(@, path)]

\* Click on the rebuild button: handleRebuildFolders runs to its await.
HandleRebuildFolders ==
  /\ call.pc = "idle" /\ ~call.rebuildDisabled
  /\ Len(call.paths) < MaxClicks
  /\ call' = [call EXCEPT !.pc = "rebuildSendMessage",
                          !.rebuildDisabled = TRUE, !.suggestDisabled = TRUE,
                          !.status = "rebuilding"]
  /\ UNCHANGED workerVars

\* await chrome.runtime.sendMessage({action: "REBUILD_CENTROIDS"}) settles:
\* with an ok response, with one that is not ok or with none, or rejected.
RebuildSendMessage(outcome) ==
  /\ call.pc = "rebuildSendMessage"
  /\ call' = handlerEnds(reenable([call EXCEPT !.status = IF outcome = "ok" THEN "rebuilt"
                                                          ELSE "error: rebuild"]),
                         <<"rebuild", outcome>>)
  /\ UNCHANGED workerVars

\* Click on the suggest button: handleSuggestFolders runs to its await.
HandleSuggestFolders ==
  /\ call.pc = "idle" /\ ~call.suggestDisabled
  /\ Len(call.paths) < MaxClicks
  /\ call' = [call EXCEPT !.pc = "suggestTabsQuery",
                          !.rebuildDisabled = TRUE, !.suggestDisabled = TRUE]
  /\ UNCHANGED workerVars

\* await chrome.tabs.query(...) settles, before the try: with a tab, with
\* no tab, or rejected, which ends the handler at once.
SuggestTabsQuery(outcome) ==
  /\ call.pc = "suggestTabsQuery"
  /\ call' = CASE outcome = "tab" ->
                    [call EXCEPT !.pc = "suggestSendMessage", !.status = "analysing"]
               [] outcome = "noTab" ->
                    handlerEnds(reenable([call EXCEPT !.status = "error: no active tab"]),
                                <<"suggest", "noTab">>)
               [] OTHER -> handlerEnds(call, <<"suggest", "tabsQueryRejected">>)
  /\ UNCHANGED workerVars

\* await chrome.runtime.sendMessage({action: "SUGGEST_FOLDERS"}) settles:
\* with n folders in the result, with no response, or rejected.
SuggestSendMessage(outcome, n) ==
  /\ call.pc = "suggestSendMessage"
  /\ outcome # "response" => n = 0
  /\ call' = CASE outcome = "response" /\ n > 0 ->
                    handlerEnds(reenable([call EXCEPT !.status = "recommended",
                                                      !.folderList = n]),
                                <<"suggest", "folders">>)
               [] outcome = "response" /\ n = 0 ->
                    handlerEnds(reenable([call EXCEPT !.status = "none found"]),
                                <<"suggest", "empty">>)
               [] outcome = "missing" ->
                    handlerEnds(reenable([call EXCEPT !.status = "error: no response"]),
                                <<"suggest", "missing">>)
               [] OTHER ->
                    handlerEnds(reenable([call EXCEPT !.status = "error: analysis"]),
                                <<"suggest", "rejected">>)
  /\ UNCHANGED workerVars

NextPopup ==
  \/ HandleRebuildFolders
  \/ \E outcome \in {"ok", "notOk", "missing", "rejected"} : RebuildSendMessage(outcome)
  \/ HandleSuggestFolders
  \/ \E outcome \in {"tab", "noTab", "rejected"} : SuggestTabsQuery(outcome)
  \/ \E outcome \in {"response", "missing", "rejected"} :
       \E n \in 0..DefaultK : SuggestSendMessage(outcome, n)

SpecPopup == InitPopup /\ [][NextPopup]_vars

\* ============================================================ properties
BuildAwaits == {"getTree", "embedFolder", "saveCentroids"}

hasUrlChild(t, id) == IsSome(t[id]) /\ \E i \in 1..Len(t[id][1]) : t[id][1][i].url

\* The folders the stack walk finds in tree t.
foldersOf(t) ==
  LET found == collectFolders(t, <<RootNode>>)
  IN {found[i].id : i \in 1..Len(found)}

\* C1: loadCentroids is idempotent.  A message that found a set in the
\* store got that set and called no build; one that found none called
\* exactly one build and got its complete result; as long as no build has
\* been persisted since a loadCentroids returned, the store holds what it
\* returned, and the next loadCentroids returns the identical set without
\* a build, whatever happened to the bookmark tree in between.
C1_EnsureIdempotent ==
  /\ IsSome(lastEnsure) => store = lastEnsure
  /\ \A r \in Reqs :
       /\ builds[r] <= 1
       /\ (IsSome(cached[r]) /\ IsSome(cached[r][1]))
            => (builds[r] = 0 /\ centroids[r] = cached[r][1])
       /\ (cached[r] = Some(None) /\ IsSome(centroids[r]))
            => (builds[r] = 1 /\ centroids[r][1] = buildAll(snap[r][1], r))
       /\ (IsSome(centroids[r]) /\ IsSome(prev[r]))
            => (centroids[r] = prev[r] /\ builds[r] = 0)

\* Two successive loadCentroids returned the same set although the tree
\* has changed and a build would now give another set.
C1_Witness ==
  \E r \in Reqs :
    /\ IsSome(centroids[r]) /\ IsSome(prev[r]) /\ centroids[r] = prev[r]
    /\ storeGen # r /\ storeGen \in Reqs
    /\ buildAll(tree, storeGen) # centroids[r][1]

\* C2: concurrent loadCentroids calls coalesce: at most one build started
\* by a SUGGEST_FOLDERS message is in flight at any time.
C2_BuildsCoalesce ==
  Cardinality({r \in Reqs : action[r] = "SUGGEST_FOLDERS" /\ pc[r] \in BuildAwaits}) <= 1

\* C3: replacement is atomic: the store is empty or holds the complete
\* result of the one build that wrote it last, and every ranking scored the
\* complete result of one build.
C3_AtomicReplacement ==
  /\ store = None <=> storeGen = 0
  /\ IsSome(store) =>
       (IsSome(snap[storeGen]) /\ store[1] = buildAll(snap[storeGen][1], storeGen))
  /\ \A r \in Reqs :
       IsSome(centroids[r]) =>
         \E g \in Reqs : IsSome(snap[g]) /\ centroids[r][1] = buildAll(snap[g][1], g)

\* A ranking scored the set of one build while the store already holds the
\* set of another.
C3_Witness ==
  \E r \in Reqs :
    /\ IsSome(centroids[r]) /\ centroids[r][1] # << >>
    /\ IsSome(store) /\ store[1] # << >>
    /\ centroids[r][1][1].gen # storeGen

\* C4: every fingerprint of a build is computed from the tree the build
\* read at its start: what the loop has pushed, followed by what it will
\* push for the folders left if it goes on over that tree, is the result of
\* the whole loop over that tree.
C4_OneSnapshot ==
  \A r \in Reqs :
    pc[r] \in {"embedFolder", "saveCentroids"} =>
      /\ IsSome(snap[r])
      /\ results[r] \o buildOver(snap[r][1], todo[r], r) = buildAll(snap[r][1], r)

\* A build that has pushed a fingerprint is suspended on the embed call of
\* a folder whose children have changed since the build read the tree.
C4_Witness ==
  \E r \in Reqs :
    /\ pc[r] = "embedFolder" /\ results[r] # << >>
    /\ childrenOrEmpty(tree, todo[r][1]) # childrenOrEmpty(snap[r][1], todo[r][1])
    /\ selectTitles(childrenOrEmpty(tree, todo[r][1]))
         # selectTitles(childrenOrEmpty(snap[r][1], todo[r][1]))

\* C5: every message whose handler has ended was answered exactly once.
C5_EveryRequestAnswered ==
  \A r \in Reqs : pc[r] \in {"returned", "rejected"} => resp[r].sent = 1

\* Fingerprint c was built from at least one title of its folder.
fingerprintHasTitles(c) ==
  /\ c.size >= 1
  /\ c.gen \in Reqs /\ IsSome(snap[c.gen])
  /\ hasUrlChild(snap[c.gen][1], c.folderId)

\* C6: every fingerprint in the store, and every folder of a ranking, has
\* size >= 1 and is a folder that had a child with a url in the tree its
\* build read.
C6_NoEmptyFolderRanked ==
  /\ IsSome(store) => \A i \in 1..Len(store[1]) : fingerprintHasTitles(store[1][i])
  /\ \A r \in Reqs : \A i \in 1..Len(resp[r].result) : fingerprintHasTitles(resp[r].result[i])

\* A ranking came back with folders while the tree its build read had a
\* folder without any child with a url.
C6_Witness ==
  \E r \in Reqs :
    /\ resp[r].kind = "ok" /\ resp[r].result # << >>
    /\ LET t == snap[resp[r].result[1].gen][1]
       IN \E f \in foldersOf(t) : f # "root" /\ ~hasUrlChild(t, f)

noQualifying(t) == \A f \in foldersOf(t) : ~hasUrlChild(t, f)

\* C9: a rebuild over a tree without qualifying folders stores the empty
\* sequence; a ranking that finds the empty sequence in the store calls no
\* build and answers ok with an empty result.
C9_EmptySetIsBuilt ==
  /\ (storeGen \in Reqs /\ noQualifying(snap[storeGen][1])) => store = Some(<< >>)
  /\ \A r \in Reqs :
       cached[r] = Some(Some(<< >>)) =>
         (builds[r] = 0 /\ pc[r] = "returned" /\ resp[r] = OkResp(<< >>))

\* A ranking answered with an empty result from the empty set a rebuild
\* stored, although the tree has a qualifying folder by now.
C9_Witness ==
  \E r \in Reqs :
    /\ cached[r] = Some(Some(<< >>)) /\ resp[r] = OkResp(<< >>)
    /\ storeGen \in Reqs /\ action[storeGen] = "REBUILD_CENTROIDS"
    /\ ~noQualifying(tree)

\* The terms folder id contributed to the corpus of tree t.
folderTerms(t, id) ==
  UNION {keys(processBookmarkFolders(t, RootNode)[j].tf) :
           j \in {k \in 1..Len(processBookmarkFolders(t, RootNode)) :
                    processBookmarkFolders(t, RootNode)[k].id = id}}

\* C7: a folder that contributed no terms is never among the folders a
\* BOOKMARK_MANAGER message is answered with.
C7_NoTermFolderExcluded ==
  \A r \in Reqs :
    resp[r].kind = "folders" =>
      \A i \in 1..Len(resp[r].result) : folderTerms(snap[r][1], resp[r].result[i].id) # {}

\* Whether res is what sorting all by score and cutting to k gives: as long
\* as min(k, number of scored folders), scores never increasing, every
\* element one of all, each at most once, and a folder stands behind another
\* of the same score, or is cut while the other is kept, only if it stands
\* behind it in all.  id(e) is the folder of element e.
isRanking(res, all, k, id(_)) ==
  /\ Len(res) = Min(k, Len(all))
  /\ \A i, j \in 1..Len(res) : i < j => res[i].score >= res[j].score
  /\ \A i \in 1..Len(res) : \E p \in 1..Len(all) : res[i] = all[p]
  /\ \A i, j \in 1..Len(res) : i # j => id(res[i]) # id(res[j])
  /\ \A i, j \in 1..Len(res) :
       (i < j /\ res[i].score = res[j].score) =>
         \E p, q \in 1..Len(all) : p < q /\ all[p] = res[i] /\ all[q] = res[j]
  /\ \A q \in 1..Len(all) :
       (\A j \in 1..Len(res) : id(res[j]) # id(all[q])) =>
         \A i \in 1..Len(res) :
           \/ res[i].score > all[q].score
           \/ res[i].score = all[q].score /\ \E p \in 1..q - 1 : all[p] = res[i]

semanticScored(r) ==
  [i \in 1..Len(centroids[r][1]) |->
     [folderId |-> centroids[r][1][i].folderId, name |-> centroids[r][1][i].name,
      vec |-> centroids[r][1][i].vec, size |-> centroids[r][1][i].size,
      gen |-> centroids[r][1][i].gen,
      score |-> cosineSimilarity(queryVector, centroids[r][1][i].vec)]]

lexicalScored(r) ==
  LET fs == corpusFolders(snap[r][1])
      page == computeTFIDF(pageTF, corpusIdf(snap[r][1]))
  IN [i \in 1..Len(fs) |->
        [id |-> fs[i].id, title |-> fs[i].title,
         score |-> cosineSimilaritySparse(page, fs[i].tfidf)]]

folderIdOf(e) == e.folderId
idOf(e) == e.id

\* C8: a ranking is ordered by non-increasing score, has length
\* min(k, number of scored folders) with k = 5 in the semantic and 3 in the
\* lexical worker, holds each folder at most once, and keeps folders of
\* equal score in the order of the fingerprint set.
C8_RankingOrdered ==
  \A r \in Reqs :
    /\ resp[r].kind = "ok" /\ action[r] = "SUGGEST_FOLDERS"
         => isRanking(resp[r].result, semanticScored(r), DefaultK, folderIdOf)
    /\ resp[r].sent = 1 /\ action[r] = "BOOKMARK_MANAGER" /\ IsSome(snap[r])
         => isRanking(resp[r].result, lexicalScored(r), TopFolders, idOf)

\* A semantic ranking was cut to five folders and a lexical one to three,
\* each with two folders of the same score.
hasTie(res) == \E i, j \in 1..Len(res) : i < j /\ res[i].score = res[j].score /\ res[i].score > 0

C8_Witness ==
  /\ \E r \in Reqs :
       /\ action[r] = "SUGGEST_FOLDERS" /\ resp[r].kind = "ok"
       /\ Len(centroids[r][1]) > DefaultK /\ Len(resp[r].result) = DefaultK
       /\ hasTie(resp[r].result)
       /\ resp[r].result[1].score > resp[r].result[DefaultK].score
  /\ \E r \in Reqs :
       /\ action[r] = "BOOKMARK_MANAGER" /\ resp[r].kind = "folders"
       /\ Len(lexicalScored(r)) > TopFolders /\ Len(resp[r].result) = TopFolders
       /\ hasTie(resp[r].result)
       /\ resp[r].result[1].score > resp[r].result[TopFolders].score

\* No folder of tree t contributed a term.
noFolderWithTerms(t) ==
  \A j \in 1..Len(processBookmarkFolders(t, RootNode)) :
    keys(processBookmarkFolders(t, RootNode)[j].tf) = {}

\* C10: when no folder of the tree contributed a term, a BOOKMARK_MANAGER
\* message is answered with an empty folders sequence, not with an error.
C10_NoFolderIsEmptyAnswer ==
  \A r \in Reqs :
    (action[r] = "BOOKMARK_MANAGER" /\ pc[r] = "returned" /\ IsSome(snap[r])
       /\ noFolderWithTerms(snap[r][1]))
      => resp[r] = FoldersResp(<< >>)

\* C11: a SUGGEST_FOLDERS message whose read of the store fails goes on as
\* if the store were empty, with one call of buildFolderCentroids, before
\* any failure ends it; a REBUILD_CENTROIDS message that a failure ends is
\* answered with an error.
C11_ReadFailureFallsBack ==
  [][\A r \in Reqs :
       (pc[r] # "rejected" /\ pc'[r] = "rejected") =>
         /\ (action[r] = "SUGGEST_FOLDERS" /\ pc[r] = "loadCentroids") => builds'[r] = 1
         /\ action[r] = "REBUILD_CENTROIDS" => resp'[r].sent = 1]_vars

\* C12: when a fingerprint of the set a ranking scores has a vector whose
\* length differs from the query vector's, the ranking fails as a whole:
\* nothing is sent, not even the scores of the fingerprints that match.
C12_MismatchFailsWhole ==
  \A r \in Reqs :
    (action[r] = "SUGGEST_FOLDERS" /\ IsSome(centroids[r])
       /\ \E i \in 1..Len(centroids[r][1]) : Len(centroids[r][1][i].vec) # Len(queryVector))
      => (pc[r] = "rejected" /\ resp[r] = NoResp)

\* A ranking failed on a set with one fingerprint of the query's length and
\* one of another length.
C12_Witness ==
  \E r \in Reqs :
    /\ action[r] = "SUGGEST_FOLDERS" /\ pc[r] = "rejected" /\ IsSome(centroids[r])
    /\ \E i, j \in 1..Len(centroids[r][1]) :
         /\ Len(centroids[r][1][i].vec) = Len(queryVector)
         /\ Len(centroids[r][1][j].vec) # Len(queryVector)

BuildSteps == {"getTree", "embedFolder", "saveCentroids", "lexGetTree", "lexStorageSet"}

\* C13: a build that a failure ends, whatever it had processed, writes
\* nothing; a store changes only in the step in which the last await of a
\* build resolves, and then to the complete result of that build.
C13_FailedBuildWritesNothing ==
  [][/\ \A r \in Reqs :
          (pc[r] \in BuildSteps /\ pc'[r] = "rejected" /\ centroids'[r] = centroids[r])
            => (store' = store /\ lstore' = lstore)
     /\ store' # store =>
          \E r \in Reqs :
            /\ pc[r] = "saveCentroids" /\ todo[r] = << >>
            /\ store' = Some(buildAll(snap[r][1], r))
     /\ lstore' # lstore =>
          \E r \in Reqs :
            /\ pc[r] = "lexStorageSet"
            /\ lstore' = Some([idf |-> corpusIdf(snap[r][1]),
                               folders |-> corpusFolders(snap[r][1])])]_vars

\* A semantic build failed after it had read a tree with folders to embed,
\* a lexical one after it had read the tree, and both stores are as they
\* were: empty.
C13_Witness ==
  /\ store = None /\ lstore = None
  /\ \E r \in Reqs :
       /\ action[r] = "SUGGEST_FOLDERS"
       /\ pc[r] = "rejected" /\ builds[r] = 1 /\ IsSome(snap[r])
       /\ buildAll(snap[r][1], r) # << >>
  /\ \E r \in Reqs :
       action[r] = "BOOKMARK_MANAGER" /\ pc[r] = "rejected" /\ IsSome(snap[r])

\* The norm of a dense vector is 0: every component is.
zeroDense(v) == \A i \in 1..Len(v) : v[i] = 0
\* The norm of a sparse vector is 0: it has no key with a weight but 0.
zeroSparse(v) == \A t \in keys(v) : v.num[t] = 0

\* C14, as stated: whenever an argument has norm 0, either cosineSimilarity
\* returns 0 and does not throw, whatever the other argument.
C14_ZeroNormGivesZero ==
  /\ (call.dense # Pending /\ (zeroDense(call.a) \/ zeroDense(call.b)))
       => call.dense = Returned(0)
  /\ (call.sparse # Pending /\ (zeroSparse(call.vecA) \/ zeroSparse(call.vecB)))
       => call.sparse = Returned(0)

\* C14, amended: whenever an argument has norm 0, the sparse
\* cosineSimilarity returns 0, and the dense one returns 0 when its
\* arguments have the same length.
C14_ZeroNormGivesZeroAtSameLength ==
  /\ (call.dense # Pending /\ Len(call.a) = Len(call.b)
         /\ (zeroDense(call.a) \/ zeroDense(call.b)))
       => call.dense = Returned(0)
  /\ (call.sparse # Pending /\ (zeroSparse(call.vecA) \/ zeroSparse(call.vecB)))
       => call.sparse = Returned(0)

\* The dense function was called with a zero vector and a non-zero one of
\* the same length, the sparse one with an empty vector and a non-zero one.
C14_Witness ==
  /\ call.dense # Pending /\ Len(call.a) = Len(call.b) /\ Len(call.a) > 0
  /\ zeroDense(call.b) /\ ~zeroDense(call.a)
  /\ call.sparse # Pending /\ keys(call.vecA) = {} /\ ~zeroSparse(call.vecB)

\* The idf of the folders of tree t alone: a weight for every term some
\* folder has, from the number of folders and of those that have the term.
folderIdf(t) ==
  LET fs == processBookmarkFolders(t, RootNode)
      has(term) == {i \in 1..Len(fs) : term \in keys(fs[i].tf)}
  IN [term \in UNION {keys(fs[i].tf) : i \in 1..Len(fs)} |->
        ln100(Len(fs) + 1, 1 + Cardinality(has(term))) + 100]

\* C15: the idf map the lexical worker stores and weights the page with is
\* the idf of the folders of the tree it read, whatever the page; and the
\* page's tf-idf vector has exactly the terms of that map as keys, so a
\* term of the page that no folder has is dropped.
C15_QueryLeavesIdfAlone ==
  IsSome(lstore) =>
    /\ \E r \in Reqs : IsSome(snap[r]) /\ lstore[1].idf = folderIdf(snap[r][1])
    /\ IsSome(tab) => keys(computeTFIDF(pageTF, lstore[1].idf)) = DOMAIN lstore[1].idf

\* A message was answered with folders although the page has a term that
\* no folder has.
C15_Witness ==
  /\ IsSome(lstore) /\ IsSome(tab)
  /\ \E term \in keys(pageTF) : term \notin DOMAIN lstore[1].idf
  /\ \E r \in Reqs : resp[r].kind = "folders" /\ IsSome(snap[r])
                        /\ lstore[1].idf = folderIdf(snap[r][1])

\* C16: a BOOKMARK_MANAGER message that finds idf and folders in
\* chrome.storage.local does not read the bookmark tree and computes no
\* corpus.
C16_StoredCorpusReused ==
  \A r \in Reqs :
    (action[r] = "BOOKMARK_MANAGER" /\ IsSome(cached[r]) /\ IsSome(cached[r][1]))
      => (builds[r] = 0 /\ snap[r] = None)

\* C17: embed returns one vector per text, and the vector at position i is
\* what the provider gave for texts[i] with the prefix of the kind, in
\* whatever order the extractor calls resolved.
C17_EmbedKeepsOrder ==
  call.phase \in {"returned", "pushed"} =>
    /\ Len(call.embs) = Len(call.texts)
    /\ \A i \in 1..Len(call.texts) :
         call.embs[i] = provide(call.provider, <<call.kind, call.texts[i]>>)

\* embed returned although a later text's extractor call resolved before
\* an earlier one's, with another vector.
C17_Witness ==
  /\ call.phase = "returned"
  /\ \E k, l \in 1..Len(call.resolved) :
       /\ k < l /\ call.resolved[k].i > call.resolved[l].i
       /\ call.resolved[k].v # call.resolved[l].v

\* The vectors the provider gave in one embed call differ in length.
ragged(resolved) ==
  \E k, l \in 1..Len(resolved) : Len(resolved[k].v) # Len(resolved[l].v)

\* C18: when the provider gives vectors of different lengths in one embed
\* call, embed does not return them and no centroid is built from them.
C18_RaggedEmbeddingsRejected ==
  ragged(call.resolved) => (call.phase \notin {"returned", "pushed"} /\ call.centroid = None)

\* The titles of the children with a url of folder id in tree t, in order.
urlTitles(t, id) ==
  LET kept == SelectSeq(t[id][1], LAMBDA c : c.url)
  IN [i \in 1..Len(kept) |-> kept[i].title]

\* Component i of the embeddings of the first n of the titles, summed.
RECURSIVE titleSum(_, _, _)
titleSum(titles, n, i) ==
  IF n = 0 THEN 0
  ELSE extractor(<<"passage", titles[n]>>)[i] + titleSum(titles, n - 1, i)

\* Fingerprint c is the mean of the embeddings of the first min(3, n)
\* titles of its folder in tree t.
isCentroidOf(c, t) ==
  LET titles == urlTitles(t, c.folderId)
  IN /\ Len(titles) >= 1
     /\ c.size = Min(MaxTitles, Len(titles))
     /\ Len(c.vec) = Len(extractor(<<"passage", titles[1]>>))
     /\ \A i \in 1..Len(c.vec) : c.vec[i] * c.size = titleSum(titles, c.size, i)

\* C19: the stored set has, for every folder with a child with a url in
\* the tree its build read, a fingerprint whose size is min(3, n) and whose
\* vector is the sum of the embeddings of the first size titles divided by
\* size, of the embeddings' length; and it has no other fingerprint.
C19_CentroidIsMeanOfFirstThree ==
  IsSome(store) =>
    LET t == snap[storeGen][1]
    IN /\ \A i \in 1..Len(store[1]) : isCentroidOf(store[1][i], t)
       /\ \A f \in FolderIds :
            hasUrlChild(t, f) => \E i \in 1..Len(store[1]) : store[1][i].folderId = f

\* The store holds a fingerprint of three titles of a folder with more,
\* which is not the embedding of its first title, and one of fewer titles.
C19_Witness ==
  /\ IsSome(store)
  /\ \E i, j \in 1..Len(store[1]) :
       /\ store[1][i].size = MaxTitles
       /\ Len(urlTitles(snap[storeGen][1], store[1][i].folderId)) > MaxTitles
       /\ store[1][i].vec #
            extractor(<<"passage", urlTitles(snap[storeGen][1], store[1][i].folderId)[1]>>)
       /\ store[1][j].size < MaxTitles

\* How often term t stands in tokens, counted from the front.
RECURSIVE countOf(_, _)
countOf(tokens, t) ==
  IF tokens = << >> THEN 0
  ELSE (IF tokens[1] = t THEN 1 ELSE 0) + countOf(Tail(tokens), t)

\* C20: termFrequency gives every term of the tokens, and no other, the
\* weight occurrences / number of tokens: every weight is above 0 and the
\* weights of a non-empty token sequence sum to 1; for no tokens the vector
\* is empty and nothing was divided.
C20_TermFrequencySumsToOne ==
  call.state = "returned" =>
    /\ keys(call.tf) = {call.tokens[i] : i \in 1..Len(call.tokens)}
    /\ \A t \in keys(call.tf) :
         /\ call.tf.num[t] = countOf(call.tokens, t)
         /\ call.tf.num[t] > 0
         /\ call.tf.den = Len(call.tokens)
    /\ call.tokens # << >> => sumOver(call.tf.num, keys(call.tf)) = call.tf.den
    /\ call.tokens = << >> => (keys(call.tf) = {} /\ call.divisions = 0)

\* C21: pipeline() is called at most once, however the embed calls of
\* rankings and builds interleave, and every embed call awaits the promise
\* of that one call: the one the module variable holds.
C21_PipelineBuiltOnce ==
  /\ Len(call.pipelines) <= 1
  /\ \A c \in Callers :
       call.callers[c].pc # "idle" =>
         (call.callers[c].extractor = Some(1) /\ call.extractorPromise = Some(1))

\* An embed call of a ranking and one of a build run on the loaded pipeline
\* at the same time, and a third embed call is suspended on its promise.
C21_Witness ==
  \E c, d, e \in Callers :
    /\ call.callers[c].kind = "query" /\ call.callers[d].kind = "passage"
    /\ call.callers[c].pc = "extracting" /\ call.callers[d].pc = "extracting"
    /\ call.callers[e].pc = "awaitExtractor"
    /\ call.pipelines = <<"fulfilled">>

\* C22: while a click handler of the popup runs both buttons are disabled,
\* and when it has ended, on whatever path, both are enabled again.
C22_ButtonsReenabled ==
  /\ call.pc # "idle" => (call.rebuildDisabled /\ call.suggestDisabled)
  /\ call.pc = "idle" => (~call.rebuildDisabled /\ ~call.suggestDisabled)

====
